---------------------------- MODULE Spec2Model ----------------------------
(***************************************************************************)
(* ALMA operation store (src/alma/crud.py over src/alma/database.py) and   *)
(* the Streamlit front ends that call it (src/alma/alma.py, src/alma.py,   *)
(* src/streamlit_app.py, src/alma/operation_management.py).                *)
(*                                                                         *)
(* Every store method opens its own AsyncSessionLocal() session and every  *)
(* commit() is its own database transaction.  A commit can fail (lost      *)
(* connection, constraint violation); the step at which a call fails is an *)
(* input of the action, drawn from the commits the method performs.        *)
(***************************************************************************)
EXTENDS Integers, Sequences, FiniteSets, TLC

VARIABLES
    operations,       \* operations table: row index (the generated id) -> row
    logs,             \* operation_logs table, in insertion order
    clients,          \* clients table: client id -> row
    result,           \* outcome of the last store / front-end call
    operations_data,  \* st.session_state.operations_data (operation_management.py)
    cache_data,       \* st.cache_data memo of load_sample_data (alma/alma.py)
    users,            \* users table: username -> row
    now,              \* the clock read by datetime.utcnow()
    faults,           \* storage failures the environment has injected so far
    session,          \* st.session_state of the running front end: login and TTL cache
    inflight          \* store calls that have read and not yet committed, per worker

vars == <<operations, logs, clients, result, operations_data, cache_data, users, now,
          faults, session, inflight>>

store_vars == <<operations, logs, clients>>

-----------------------------------------------------------------------------
(* Bounds of the model *)

MaxOps == 2

MaxLogs == 3

MaxOpsData == 2

MaxTime == 2

MaxFaults == 1

-----------------------------------------------------------------------------
(* database.py: enumerations *)

PENDING == "Pending"
ASSIGNED == "Assigned"
COLLECTING == "Collecting"
COLLECTED == "Collected"
VALIDATED == "Validated"
DELIVERED_TO_FX == "Delivered to FX"
FX_PROCESSING == "FX Processing"
COMPLETED == "Completed"
CANCELLED == "Cancelled"
ERROR == "Error"

OperationStatus ==
    { PENDING, ASSIGNED, COLLECTING, COLLECTED, VALIDATED, DELIVERED_TO_FX,
      FX_PROCESSING, COMPLETED, CANCELLED, ERROR }

REGULAR == "regular"
FREQUENT == "frequent"

ClientType == { REGULAR, FREQUENT }

\* money is counted in cents, the unit of the Numeric(15, 2) columns; USD(d)
\* is the amount of d whole dollars
USD(d) == d * 100

-----------------------------------------------------------------------------
(* Inputs the callers are drawn from *)

\* new_status arguments tried by update_operation_status
StatusInputs == { ASSIGNED, COLLECTING, COMPLETED, ERROR }

\* amount_usd values handed to create_operation: one below every minimum, one
\* mid-range
Amounts == { USD(50), USD(6000) }

\* operation_data['client_type'] values handed to create_operation: a tier
\* name and a string that names no tier
ClientTypeInputs == { REGULAR, "vip" }

\* ids handed to update / cancel: every row that can exist and one that cannot
OpIds == 1 .. (MaxOps + 1)

\* clients.id values handed to create_operation: a sample client, the client
\* create_client may have added, and "ghost", which is in no clients row
ClientIds == { "maria", "zoe", "ghost" }

\* where a store call meets a storage failure: nowhere, at its own commit,
\* or in the audit-log commit ("stats", the client-stats commit, is a step
\* create_operation does not get to)
CreateFailures == { "none", "commit", "log" }
WriteFailures == { "none", "commit", "log" }

-----------------------------------------------------------------------------
(* config.py: the commission calculator.  Rates are held in units of 0.005   *)
(* (0.07 is 14, 0.015 is 3); the amounts of a breakdown are held in 200ths   *)
(* of a cent, so that amount * rate is exact.                                *)

\* Config.COMMISSION_RATES
COMMISSION_RATES ==
    [ t \in ClientType |->
        IF t = REGULAR THEN [ low |-> 14, medium |-> 12, high |-> 10 ]
        ELSE [ low |-> 12, medium |-> 10, high |-> 8 ] ]

\* Config.FX_PROVIDER_COMMISSION = 0.015
FX_PROVIDER_COMMISSION == 3

\* a mutation of calculate_commission whose low bracket includes 5000
calculate_commission_low_inclusive(amount, client_type) ==
    LET rate == IF amount <= USD(5000) THEN COMMISSION_RATES[client_type].low
                ELSE IF amount <= USD(20000) THEN COMMISSION_RATES[client_type].medium
                ELSE COMMISSION_RATES[client_type].high
        commission == amount * rate
        fx_commission == amount * FX_PROVIDER_COMMISSION
        net_amount == amount * 200 - commission
    IN  [ gross_amount |-> amount * 200, commission_rate |-> rate,
          commission_amount |-> commission, fx_commission |-> fx_commission,
          net_amount |-> net_amount ]

\* calculate_commission(amount, client_type), defined for the client types
\* that are keys of COMMISSION_RATES; any other key raises KeyError
calculate_commission(amount, client_type) ==
    LET rate == IF amount < USD(5000) THEN COMMISSION_RATES[client_type].low
                ELSE IF amount <= USD(20000) THEN COMMISSION_RATES[client_type].medium
                ELSE COMMISSION_RATES[client_type].high
        commission == amount * rate
        fx_commission == amount * FX_PROVIDER_COMMISSION
        net_amount == amount * 200 - commission
    IN  [ gross_amount |-> amount * 200, commission_rate |-> rate,
          commission_amount |-> commission, fx_commission |-> fx_commission,
          net_amount |-> net_amount ]

\* COMMISSION_RATES[client_type] raises KeyError
raises_KeyError(client_type) == client_type \notin DOMAIN COMMISSION_RATES

\* a value written to a Numeric(15, 2) column: 200ths of a cent rounded
\* to cents.  The value arrives as a binary float; at an exact half cent the
\* float lies on either side of the half, so `up` is open there.
numeric_15_2(x, up) ==
    (x \div 200) + (IF x % 200 > 100 \/ (x % 200 = 100 /\ up) THEN 1 ELSE 0)

\* the ways a value can round: both at an exact half cent, one otherwise
roundings(x) == IF x % 200 = 100 THEN BOOLEAN ELSE { FALSE }

-----------------------------------------------------------------------------
(* crud.py helpers *)

\* a mutation of log_operation_action that rewrites the newest entry
log_operation_action_overwrite(lg, operation_id, action, details) ==
    LET e == [operation_id |-> operation_id, action |-> action, details |-> details]
    IN  IF lg = <<>> THEN <<e>> ELSE [lg EXCEPT ![Len(lg)] = e]

\* DatabaseOperations.log_operation_action: add one OperationLog row, commit
log_operation_action(lg, operation_id, action, details) ==
    Append(lg, [operation_id |-> operation_id, action |-> action, details |-> details])

\* a mutation of update_client_stats that promotes on either threshold
update_client_stats_either(cl, client_id, operation_amount) ==
    IF client_id \in DOMAIN cl
    THEN LET n == cl[client_id].total_operations + 1
             v == cl[client_id].total_volume + operation_amount
         IN  [cl EXCEPT ![client_id] =
                 [ total_operations |-> n,
                   total_volume |-> v,
                   client_type |-> IF n >= 5 \/ v >= USD(25000)
                                   THEN FREQUENT ELSE cl[client_id].client_type ]]
    ELSE cl

\* DatabaseOperations.update_client_stats: read-modify-write of one client row
update_client_stats(cl, client_id, operation_amount) ==
    IF client_id \in DOMAIN cl
    THEN LET n == cl[client_id].total_operations + 1
             v == cl[client_id].total_volume + operation_amount
         IN  [cl EXCEPT ![client_id] =
                 [ total_operations |-> n,
                   total_volume |-> v,
                   client_type |-> IF n >= 5 /\ v >= USD(25000)
                                   THEN FREQUENT ELSE cl[client_id].client_type ]]
    ELSE cl

\* a mutation of the primary-key lookup: a miss falls back to the newest row
session_get_newest(table, id) ==
    IF id \in DOMAIN table THEN <<table[id]>>
    ELSE IF table # <<>> THEN <<table[Len(table)]>> ELSE <<>>

\* session.get(Operation, operation_id): the row with that primary key, as a
\* sequence of zero or one rows
session_get(table, id) ==
    IF id \in DOMAIN table THEN <<table[id]>> ELSE <<>>

\* a mutation of the cancellation guard that lets every status through
cancellable_any(status) == TRUE

\* delete_operation's guard: status in [PENDING, ASSIGNED]
cancellable(status) == status \in { PENDING, ASSIGNED }

\* ForeignKey("clients.id") on operations.client_id, checked by the insert
client_fk_ok(cl, client_id) == client_id \in DOMAIN cl

\* operation_data.get(key, default)
operation_data_get(operation_data, key, default) ==
    IF key \in DOMAIN operation_data THEN operation_data[key] ELSE default

\* the operation code MSB-<date>-<suffix> made from the clock reading `today`
\* (in seconds): the date and the last three digits of the timestamp
generate_operation_id(today) ==
    [ date |-> today \div 86400, suffix |-> today % 1000 ]

\* operations.operation_id is unique=True: the insert of a code that a row
\* already carries fails with IntegrityError
operation_id_unique(ops, operation_id) ==
    \A o \in DOMAIN ops : ops[o].operation_id # operation_id

\* a mutation of the status a new row gets: a supplied status is taken over
initial_status_supplied(operation_data) ==
    operation_data_get(operation_data, "status", PENDING)

\* the status of a new Operation row: always OperationStatus.PENDING
initial_status(operation_data) == PENDING

\* a mutation of the completion stamp: every status change stamps the row
completed_at_always(operation, new_status, t) == <<t>>

\* update_operation_status: completed_at is set to utcnow() when the new
\* status is COMPLETED and is not touched otherwise (None is written <<>>)
completed_at_after(operation, new_status, t) ==
    IF new_status = COMPLETED THEN <<t>> ELSE operation.completed_at

\* the second at which the k-th create of a table reads the clock when the
\* caller leaves more than a second between two creates
spaced_second(table) == 100 + Len(table)

-----------------------------------------------------------------------------
(* crud.py: the store's write operations.  `fail` names the commit at which   *)
(* the call meets a storage failure ("none": no failure).                     *)

\* the Python types update_client_stats adds up: total_volume comes back
\* from its Numeric(15, 2) column as decimal.Decimal, and create_operation
\* hands over amount = float(operation_data['amount_usd'])
TotalVolumeType == "Decimal"
OperationAmountType == "float"

\* left += right on two Python numbers: decimal.Decimal and float do not
\* add, the statement raises TypeError
iadd_raises_TypeError(left, right) == { left, right } = { "Decimal", "float" }

\* create_operation up to its call of update_client_stats: the ways the
\* operation row and its log entry can be written (one per rounding of the
\* financial columns), for a client type that calculate_commission knows
create_operation_writes(operation_data, today, fail) ==
    LET operation_id == generate_operation_id(today)
        client_id == operation_data.client_id
        amount == operation_data.amount_usd
        client_type == operation_data_get(operation_data, "client_type", REGULAR)
        commission_info == calculate_commission(amount, client_type)
        id == Len(operations) + 1
        committed == /\ fail # "commit"
                     /\ client_fk_ok(clients, client_id)
                     /\ operation_id_unique(operations, operation_id)
        logged == committed /\ fail # "log"
    IN  { LET row == [ id |-> id, operation_id |-> operation_id,
                       client_id |-> client_id,
                       amount_usd |-> amount,
                       commission_rate |-> commission_info.commission_rate,
                       commission_amount |->
                           numeric_15_2(commission_info.commission_amount, uc),
                       fx_commission |->
                           numeric_15_2(commission_info.fx_commission, uf),
                       net_amount |->
                           numeric_15_2(commission_info.net_amount, un),
                       status |-> initial_status(operation_data),
                       collector_id |->
                           operation_data_get(operation_data, "collector_id", <<>>),
                       priority |->
                           operation_data_get(operation_data, "priority", "Normal"),
                       created_at |-> now,
                       completed_at |-> <<>> ]
          IN  [ operations |-> IF committed THEN Append(operations, row)
                               ELSE operations,
                logs |-> IF logged
                         THEN log_operation_action(logs, id, "Operation Created",
                                                   <<ToString(amount)>>)
                         ELSE logs,
                id |-> IF committed THEN id ELSE 0,
                logged |-> logged ] :
          uc \in roundings(commission_info.commission_amount),
          uf \in roundings(commission_info.fx_commission),
          un \in roundings(commission_info.net_amount) }

\* DatabaseOperations.create_operation(operation_data), whose utcnow() reads
\* the second `today`.  The call ends in KeyError before any write, in the
\* error of the commit that failed, in the TypeError of update_client_stats,
\* or returns the operation.
create_operation(operation_data, today, fail) ==
    /\ Len(operations) < MaxOps
    /\ Len(logs) < MaxLogs
    /\ IF raises_KeyError(operation_data_get(operation_data, "client_type", REGULAR))
       THEN /\ fail = "none"
            /\ result' = [ call |-> "create_operation", id |-> 0,
                           outcome |-> "KeyError" ]
            /\ UNCHANGED store_vars
       ELSE \E written \in create_operation_writes(operation_data, today, fail) :
               LET summed == /\ written.logged
                             /\ ~iadd_raises_TypeError(TotalVolumeType,
                                                       OperationAmountType)
                   counted == summed /\ fail # "stats"
               IN  /\ fail = "stats" => summed
                   /\ operations' = written.operations
                   /\ logs' = written.logs
                   /\ clients' = IF counted
                                 THEN update_client_stats(clients,
                                          operation_data.client_id,
                                          operation_data.amount_usd)
                                 ELSE clients
                   /\ result' = [ call |-> "create_operation",
                                  id |-> written.id,
                                  outcome |-> IF counted THEN "ok"
                                              ELSE IF written.logged /\ fail = "none"
                                              THEN "TypeError"
                                              ELSE "PersistenceError" ]

\* DatabaseOperations.update_operation_status(operation_id, new_status, ...)
update_operation_status(operation_id, new_status, fail) ==
    /\ Len(logs) < MaxLogs
    /\ LET found == session_get(operations, operation_id)
       IN  IF found = <<>>
           THEN /\ result' = [ call |-> "update_operation_status", id |-> operation_id,
                               outcome |-> "NotFound" ]
                /\ UNCHANGED store_vars
           ELSE LET operation == found[1]
                    old_status == operation.status
                    committed == fail # "commit"
                    logged == committed /\ fail # "log"
                IN  /\ operations' =
                        IF committed
                        THEN [operations EXCEPT
                                 ![operation.id].status = new_status,
                                 ![operation.id].completed_at =
                                     completed_at_after(operation, new_status, now)]
                        ELSE operations
                    /\ logs' = IF logged
                               THEN log_operation_action(logs, operation_id,
                                        "Status Updated", <<old_status, new_status>>)
                               ELSE logs
                    /\ UNCHANGED clients
                    /\ result' = [ call |-> "update_operation_status",
                                   id |-> operation_id,
                                   outcome |-> IF logged THEN "ok" ELSE "PersistenceError" ]

\* DatabaseOperations.delete_operation(operation_id, user_id): soft delete
delete_operation(operation_id, fail) ==
    /\ Len(logs) < MaxLogs
    /\ LET found == session_get(operations, operation_id)
       IN  IF found = <<>>
           THEN /\ result' = [ call |-> "delete_operation", id |-> operation_id,
                               outcome |-> "False" ]
                /\ UNCHANGED store_vars
           ELSE IF ~cancellable(found[1].status)
           THEN /\ result' = [ call |-> "delete_operation", id |-> operation_id,
                               outcome |-> "StateConflict" ]
                /\ UNCHANGED store_vars
           ELSE LET operation == found[1]
                    committed == fail # "commit"
                    logged == committed /\ fail # "log"
                IN  /\ operations' =
                        IF committed
                        THEN [operations EXCEPT ![operation.id].status = CANCELLED]
                        ELSE operations
                    /\ logs' = IF logged
                               THEN log_operation_action(logs, operation_id,
                                        "Operation Cancelled", <<>>)
                               ELSE logs
                    /\ UNCHANGED clients
                    /\ result' = [ call |-> "delete_operation", id |-> operation_id,
                                   outcome |-> IF logged THEN "True" ELSE "PersistenceError" ]

\* the environment's failure budget: a failing call spends one failure
inject(fail) ==
    /\ fail # "none" => faults < MaxFaults
    /\ faults' = IF fail = "none" THEN faults ELSE faults + 1

-----------------------------------------------------------------------------
(* Initial state: database.py setup_database on an empty database *)

\* create_sample_clients: John Smith, Maria Garcia, David Chen, Sarah Johnson
SampleClients ==
    [ c \in { "john", "maria", "david", "sarah" } |->
        CASE c = "john" ->
               [ total_operations |-> 12, total_volume |-> USD(150000), client_type |-> FREQUENT ]
          [] c = "maria" ->
               [ total_operations |-> 3, total_volume |-> USD(25000), client_type |-> REGULAR ]
          [] c = "david" ->
               [ total_operations |-> 8, total_volume |-> USD(85000), client_type |-> FREQUENT ]
          [] OTHER ->
               [ total_operations |-> 2, total_volume |-> USD(18000), client_type |-> REGULAR ] ]

\* create_default_users: username -> row (is_active defaults to True,
\* last_login to None, written <<>>)
DefaultUsers ==
    [ u \in { "admin", "fx_provider", "jessica", "carlos" } |->
        [ password_hash |-> CASE u = "admin" -> "admin123"
                              [] u = "fx_provider" -> "fx123"
                              [] u = "jessica" -> "jessica123"
                              [] OTHER -> "carlos123",
          is_active |-> TRUE,
          last_login |-> <<>> ] ]

NoResult == [ call |-> "none", id |-> 0, outcome |-> "none" ]

NoCache == [ valid |-> FALSE, value |-> <<>> ]

\* initialize_session_state(): nobody is logged in and nothing is cached
\* (None is written <<>>)
NoSession ==
    [ authenticated |-> FALSE, user_name |-> <<>>,
      operations_cache |-> <<>>, cache_time |-> <<>> ]

\* the store callers that can run side by side, none of them inside a call
Workers == { "w1", "w2" }

Idle == [ call |-> "idle" ]

Init ==
    /\ operations = <<>>
    /\ logs = <<>>
    /\ clients = SampleClients
    /\ result = NoResult
    /\ operations_data = <<>>
    /\ cache_data = NoCache
    /\ users = DefaultUsers
    /\ now = 0
    /\ faults = 0
    /\ session = NoSession
    /\ inflight = [ w \in Workers |-> Idle ]

ui_vars == <<operations_data, cache_data, users, now, session, inflight>>

CreateOperation ==
    \E c \in ClientIds, a \in Amounts, t \in ClientTypeInputs, f \in CreateFailures :
        /\ create_operation([ client_id |-> c, amount_usd |-> a, client_type |-> t ],
                            spaced_second(operations), f)
        /\ inject(f)
        /\ UNCHANGED ui_vars

UpdateOperationStatus ==
    \E o \in OpIds, s \in StatusInputs, f \in WriteFailures :
        update_operation_status(o, s, f) /\ inject(f) /\ UNCHANGED ui_vars

DeleteOperation ==
    \E o \in OpIds, f \in WriteFailures :
        delete_operation(o, f) /\ inject(f) /\ UNCHANGED ui_vars

Next == CreateOperation \/ UpdateOperationStatus \/ DeleteOperation

Spec == Init /\ [][Next]_vars

-----------------------------------------------------------------------------
(* The commission calculator and the financial columns of an operation *)

\* amounts handed to calculate_commission: the smallest amount, the bracket
\* edges 5000 and 20000 with their neighbours, amounts whose commission ends
\* on a half cent, and the limits
CommissionAmounts ==
    { 1, USD(100), USD(100) + 25, USD(100) + 50, USD(5000) - 1, USD(5000),
      USD(5000) + 1, USD(10000), USD(20000), USD(20000) + 1, USD(50000),
      USD(100000) }

\* amounts handed to create_operation together with a client type
PricedAmounts == { USD(100) + 25, USD(100) + 50, USD(10000) }

\* client_type arguments: the two tiers and a string that names no tier
TierInputs == { REGULAR, FREQUENT, "vip" }

\* a call of calculate_commission(amount, client_type), as the new-operation
\* form and create_operation make it
CalculateCommission ==
    \E a \in CommissionAmounts, t \in TierInputs :
        /\ result' = [ call |-> "calculate_commission", id |-> 0,
                       amount |-> a, client_type |-> t,
                       outcome |-> IF raises_KeyError(t) THEN "KeyError" ELSE "ok",
                       breakdown |-> IF raises_KeyError(t) THEN <<>>
                                     ELSE calculate_commission(a, t) ]
        /\ UNCHANGED <<operations, logs, clients, operations_data, cache_data,
                       users, now, faults, session, inflight>>

\* create_operation for a client whose tier the caller passes along
CreatePricedOperation ==
    \E a \in PricedAmounts, t \in TierInputs :
        /\ create_operation([ client_id |-> "maria", amount_usd |-> a,
                              client_type |-> t ],
                            spaced_second(operations), "none")
        /\ UNCHANGED <<ui_vars, faults>>

NextCommission == CalculateCommission \/ CreatePricedOperation

\* the calculator alone and inside create_operation
SpecCommission == Init /\ [][NextCommission]_vars

-----------------------------------------------------------------------------
(* crud.py: clients *)

\* client_data of create_client: Client(**client_data) takes every column,
\* client_type and the totals included
ClientData ==
    { [ client_type |-> t, total_operations |-> n[1], total_volume |-> n[2] ] :
        t \in ClientType, n \in { <<0, 0>>, <<4, USD(20000)>> } }

\* DatabaseOperations.create_client(client_data): the row gets a fresh id
create_client(client_id, client_data) ==
    /\ client_id \notin DOMAIN clients
    /\ clients' = [ c \in DOMAIN clients \cup {client_id} |->
                      IF c = client_id THEN client_data ELSE clients[c] ]
    /\ result' = [ call |-> "create_client", id |-> 0, outcome |-> "ok" ]

CreateClient ==
    \E d \in ClientData :
        /\ create_client("zoe", d)
        /\ UNCHANGED <<operations, logs, operations_data, cache_data, users, now, faults,
                   session, inflight>>

NextClients == CreateClient \/ CreateOperation

\* the clients table under create_client and the recording of operations
SpecClients == Init /\ [][NextClients]_vars

-----------------------------------------------------------------------------
(* config.py: limits and the operation validator *)

MIN_OPERATION_AMOUNT == 100

MAX_OPERATION_AMOUNT == 50000

\* st.number_input("Amount (USD)*", min_value=100, max_value=100000, ...)
FORM_MIN_VALUE == 100

FORM_MAX_VALUE == 100000

\* Python truthiness of a text value: the empty text is falsy
truthy(text) == text # <<>>

\* data.get("amount", default): data.amount is <<>> when the key is absent
\* and <<a>> when it holds the number a
data_get_amount(data, default) ==
    IF data.amount = <<>> THEN default ELSE data.amount[1]

\* a mutation of validate_operation_data that stops at the first error
validate_operation_data_first(data) ==
    IF ~truthy(data.client_name) THEN <<"Client name is required">>
    ELSE IF data_get_amount(data, 0) = 0
            \/ data_get_amount(data, 0) < USD(MIN_OPERATION_AMOUNT)
    THEN <<"Amount must be at least $100">>
    ELSE IF data_get_amount(data, 0) > USD(MAX_OPERATION_AMOUNT)
    THEN <<"Amount cannot exceed $50000">>
    ELSE IF ~truthy(data.usdt_wallet) THEN <<"USDT wallet address is required">>
    ELSE IF ~truthy(data.pickup_address) THEN <<"Pickup address is required">>
    ELSE <<>>

\* validate_operation_data(data): the list of error messages, in order
validate_operation_data(data) ==
    LET e1 == IF ~truthy(data.client_name)
              THEN <<"Client name is required">> ELSE <<>>
        e2 == IF data_get_amount(data, 0) = 0
                 \/ data_get_amount(data, 0) < USD(MIN_OPERATION_AMOUNT)
              THEN <<"Amount must be at least $100">> ELSE <<>>
        e3 == IF data_get_amount(data, 0) > USD(MAX_OPERATION_AMOUNT)
              THEN <<"Amount cannot exceed $50000">> ELSE <<>>
        e4 == IF ~truthy(data.usdt_wallet)
              THEN <<"USDT wallet address is required">> ELSE <<>>
        e5 == IF ~truthy(data.pickup_address)
              THEN <<"Pickup address is required">> ELSE <<>>
    IN  e1 \o e2 \o e3 \o e4 \o e5

\* text of n copies of one character after a prefix
Padded(prefix, ch, n) == prefix \o [ i \in 1 .. n |-> ch ]

\* what the operator can type into the form
ClientNames == { <<>>, <<"A", "n", "n">> }
PickupAddresses == { <<>>, <<"1", " ", "M", "a", "i", "n">> }
Wallets == { <<>>, <<"T", "1", "2", "3", "4", "5">>, Padded(<<"T">>, "1", 33) }
Collectors == { "Auto-assign", "Carlos" }

\* values the amount widget lets through (its own range is 100 .. 100000)
FormAmounts ==
    { USD(FORM_MIN_VALUE), USD(6000), USD(MAX_OPERATION_AMOUNT),
      USD(MAX_OPERATION_AMOUNT) + 1, USD(FORM_MAX_VALUE) }

-----------------------------------------------------------------------------
(* The validators on their own *)

\* utils.py validate_usdt_address(address)
validate_usdt_address(address) ==
    IF ~truthy(address) THEN FALSE
    ELSE IF address[1] = "T" /\ Len(address) = 34 THEN TRUE
    ELSE IF Len(address) >= 2 /\ address[1] = "0" /\ address[2] = "x"
            /\ Len(address) = 42 THEN TRUE
    ELSE FALSE

\* wallet texts: none, the short "T12345", a 34-character T address, a
\* 42-character 0x address, a 35-character T text, a 34-character text that
\* starts with neither prefix
ValidationWallets ==
    { <<>>, <<"T", "1", "2", "3", "4", "5">>, Padded(<<"T">>, "1", 33),
      Padded(<<"0", "x">>, "a", 40), Padded(<<"T">>, "1", 34),
      Padded(<<"X">>, "1", 33) }

\* the "amount" entry of the data: absent, zero, and amounts around the limits
ValidationAmounts ==
    { <<>>, <<0>>, <<USD(MIN_OPERATION_AMOUNT) - 1>>, <<USD(MIN_OPERATION_AMOUNT)>>,
      <<USD(MAX_OPERATION_AMOUNT)>>, <<USD(MAX_OPERATION_AMOUNT) + 1>>,
      <<USD(FORM_MAX_VALUE)>>, <<USD(FORM_MAX_VALUE) + 1>> }

ValidationInputs ==
    { [ client_name |-> n, amount |-> a, usdt_wallet |-> w, pickup_address |-> p ] :
        n \in ClientNames, a \in ValidationAmounts, w \in ValidationWallets,
        p \in PickupAddresses }

\* a call of validate_operation_data(data)
ValidateOperationData ==
    \E data \in ValidationInputs :
        /\ result' = [ call |-> "validate_operation_data", id |-> 0,
                       outcome |-> "returned", data |-> data,
                       errors |-> validate_operation_data(data) ]
        /\ UNCHANGED <<operations, logs, clients, operations_data, cache_data,
                       users, now, faults, session, inflight>>

\* a call of validate_usdt_address(address)
ValidateUsdtAddress ==
    \E w \in ValidationWallets :
        /\ result' = [ call |-> "validate_usdt_address", id |-> 0,
                       outcome |-> IF validate_usdt_address(w) THEN "True" ELSE "False",
                       address |-> w ]
        /\ UNCHANGED <<operations, logs, clients, operations_data, cache_data,
                       users, now, faults, session, inflight>>

NextValidate == ValidateOperationData \/ ValidateUsdtAddress

\* the two validators over their input space
SpecValidate == Init /\ [][NextValidate]_vars

-----------------------------------------------------------------------------
(* operation_management.py: the new-operation form *)

\* new_operation_form(), the run in which "Create Operation" is submitted
\* and generate_operation_id() reads the second `today`
new_operation_form(client_name, amount_usd, usdt_wallet, pickup_address, collector, today) ==
    LET operation_data == [ client_name |-> client_name, amount |-> <<amount_usd>>,
                            usdt_wallet |-> usdt_wallet,
                            pickup_address |-> pickup_address ]
        errors == validate_operation_data(operation_data)
        new_operation == [ operation_id |-> generate_operation_id(today),
                           client_name |-> client_name,
                           amount_usd |-> amount_usd,
                           status |-> PENDING,
                           collector |-> IF collector # "Auto-assign"
                                         THEN collector ELSE "Jessica",
                           created_at |-> now ]
    IN  /\ Len(operations_data) < MaxOpsData
        /\ operations_data' = IF errors = <<>>
                              THEN Append(operations_data, new_operation)
                              ELSE operations_data
        /\ result' = [ call |-> "new_operation_form", id |-> Len(errors),
                       outcome |-> IF errors = <<>> THEN "created" ELSE "rejected" ]

NewOperationForm ==
    \E n \in ClientNames, a \in FormAmounts, w \in Wallets,
       p \in PickupAddresses, c \in Collectors :
        /\ new_operation_form(n, a, w, p, c, spaced_second(operations_data))
        /\ UNCHANGED <<operations, logs, clients, cache_data, users, now, faults,
                   session, inflight>>

NextForm == CreateOperation \/ NewOperationForm

\* the store's create path next to the form's in-session create path
SpecForm == Init /\ [][NextForm]_vars

-----------------------------------------------------------------------------
(* alma/alma.py: the dashboard, its memoised listing and its write wrappers.  *)
(* The database modules are importable (DATABASE_AVAILABLE is True); in demo  *)
(* mode the wrappers write nothing.                                           *)

Reverse(seq) == [ i \in 1 .. Len(seq) |-> seq[Len(seq) + 1 - i] ]

\* load_operations_data over get_all_operations: order_by(desc(created_at))
load_operations_data(ops) ==
    Reverse([ i \in DOMAIN ops |->
                [ id |-> ops[i].id, amount_usd |-> ops[i].amount_usd,
                  status |-> ops[i].status ] ])

\* @st.cache_data load_sample_data(): the memo answers while it is set
load_sample_data(cache, ops) ==
    IF cache.valid THEN cache
    ELSE [ valid |-> TRUE, value |-> load_operations_data(ops) ]

\* st.cache_data.clear()
cache_data_clear == NoCache

\* admin_dashboard(): a run of the page without a click
AdminDashboard ==
    /\ cache_data' = load_sample_data(cache_data, operations)
    /\ result' = [ call |-> "admin_dashboard", id |-> 0, outcome |-> "rendered" ]
    /\ UNCHANGED <<operations, logs, clients, operations_data, users, now, faults,
                   session, inflight>>

\* admin_dashboard(): "Refresh Data" clicked: clear the memo, st.rerun()
RefreshData ==
    /\ cache_data' = load_sample_data(cache_data_clear, operations)
    /\ result' = [ call |-> "refresh_data", id |-> 0, outcome |-> "rendered" ]
    /\ UNCHANGED <<operations, logs, clients, operations_data, users, now, faults,
                   session, inflight>>

\* alma.delete_operation(operation_id): the store call inside try/except;
\* the memo is cleared only when the store call returned
alma_delete_operation(operation_id, fail, shown) ==
    /\ delete_operation(operation_id, fail)
    /\ cache_data' =
          IF result'.outcome \in { "StateConflict", "PersistenceError" }
          THEN shown
          ELSE IF result'.outcome = "True"
               THEN load_sample_data(cache_data_clear, operations')
               ELSE cache_data_clear

\* admin_dashboard(): "Cancel" clicked on a listed Pending / Assigned row;
\* a True answer is followed by st.rerun(), which loads the listing again
CancelClicked ==
    \E o \in OpIds, f \in WriteFailures :
        LET shown == load_sample_data(cache_data, operations)
        IN  /\ \E i \in DOMAIN shown.value :
                  /\ shown.value[i].id = o
                  /\ shown.value[i].status \in { PENDING, ASSIGNED }
            /\ alma_delete_operation(o, f, shown)
            /\ inject(f)
            /\ UNCHANGED <<operations_data, users, now, session, inflight>>

\* alma.create_operation(operation_data): the store call inside try/except;
\* the memo is cleared only when the store call returned
alma_create_operation(client_id, amount, client_type, fail) ==
    /\ create_operation([ client_id |-> client_id, amount_usd |-> amount,
                          client_type |-> client_type ],
                        spaced_second(operations), fail)
    /\ cache_data' = IF result'.outcome = "ok" THEN cache_data_clear ELSE cache_data

AlmaCreateOperation ==
    \E c \in ClientIds, a \in Amounts, t \in ClientTypeInputs, f \in CreateFailures :
        /\ alma_create_operation(c, a, t, f)
        /\ inject(f)
        /\ UNCHANGED <<operations_data, users, now, session, inflight>>

NextUI == AdminDashboard \/ RefreshData \/ CancelClicked \/ AlmaCreateOperation

\* one alma/alma.py process in front of the store
SpecUI == Init /\ [][NextUI]_vars

-----------------------------------------------------------------------------
(* Authentication: crud.py, src/alma.py, src/streamlit_app.py *)

Usernames == { "admin", "jessica", "dave", "nobody" }

Passwords == { "admin123", "jessica123", "wrong" }

\* a mutation of authenticate_user that stamps last_login of the named user
\* before it compares the credential
crud_authenticate_user_by_name(username, password, fail) ==
    LET found == /\ username \in DOMAIN users
                 /\ users[username].password_hash = password
                 /\ users[username].is_active
        committed == username \in DOMAIN users /\ fail # "commit"
    IN  /\ found \/ fail = "none"
        /\ users' = IF committed
                    THEN [users EXCEPT ![username].last_login = <<now>>]
                    ELSE users
        /\ result' = [ call |-> "crud.authenticate_user", id |-> 0,
                       username |-> username, password |-> password,
                       outcome |-> IF ~found THEN "None"
                                   ELSE IF committed THEN username
                                   ELSE "PersistenceError" ]

\* DatabaseOperations.authenticate_user(username, password): one select on
\* username, password_hash and is_active; last_login is written on a match
crud_authenticate_user(username, password, fail) ==
    LET found == /\ username \in DOMAIN users
                 /\ users[username].password_hash = password
                 /\ users[username].is_active
        committed == found /\ fail # "commit"
    IN  /\ found \/ fail = "none"
        /\ users' = IF committed
                    THEN [users EXCEPT ![username].last_login = <<now>>]
                    ELSE users
        /\ result' = [ call |-> "crud.authenticate_user", id |-> 0,
                       username |-> username, password |-> password,
                       outcome |-> IF ~found THEN "None"
                                   ELSE IF committed THEN username
                                   ELSE "PersistenceError" ]

\* DatabaseOperations.create_user(user_data); users.username is unique
create_user(username, password, is_active) ==
    /\ users' = IF username \in DOMAIN users THEN users
                ELSE [ u \in DOMAIN users \cup {username} |->
                         IF u = username
                         THEN [ password_hash |-> password, is_active |-> is_active,
                                last_login |-> <<>> ]
                         ELSE users[u] ]
    /\ result' = [ call |-> "create_user", id |-> 0,
                   username |-> username, password |-> password,
                   outcome |-> IF username \in DOMAIN users
                               THEN "PersistenceError" ELSE username ]

\* the user names and passwords the demo branches accept
alma_demo_users == { "admin", "fx_provider", "jessica", "carlos" }
alma_demo_passwords == { "admin123", "fx123", "jessica123", "carlos123" }
streamlit_demo_users == { "admin", "fx_provider", "jessica" }
streamlit_demo_passwords == { "admin123", "fx123", "jessica123" }

\* src/alma.py authenticate_user(username, password); DATABASE_AVAILABLE is
\* False there, so only the demo branch can answer
alma_authenticate_user(username, password) ==
    IF username \in alma_demo_users /\ password \in alma_demo_passwords
    THEN username ELSE "None"

\* src/streamlit_app.py authenticate_user(username, password)
streamlit_authenticate_user(username, password) ==
    IF username \in streamlit_demo_users /\ password \in streamlit_demo_passwords
    THEN username ELSE "None"

no_store_change ==
    UNCHANGED <<operations, logs, clients, operations_data, cache_data, session, inflight>>

CrudAuthenticate ==
    \E u \in Usernames, p \in Passwords, f \in { "none", "commit" } :
        /\ crud_authenticate_user(u, p, f)
        /\ inject(f)
        /\ no_store_change /\ UNCHANGED now

CreateUser ==
    \E p \in Passwords, a \in BOOLEAN :
        /\ create_user("dave", p, a)
        /\ no_store_change /\ UNCHANGED <<now, faults>>

AlmaAuthenticate ==
    \E u \in Usernames, p \in Passwords :
        /\ result' = [ call |-> "alma.authenticate_user", id |-> 0,
                       username |-> u, password |-> p,
                       outcome |-> alma_authenticate_user(u, p) ]
        /\ no_store_change /\ UNCHANGED <<users, now, faults>>

StreamlitAuthenticate ==
    \E u \in Usernames, p \in Passwords :
        /\ result' = [ call |-> "streamlit_app.authenticate_user", id |-> 0,
                       username |-> u, password |-> p,
                       outcome |-> streamlit_authenticate_user(u, p) ]
        /\ no_store_change /\ UNCHANGED <<users, now, faults>>

\* the clock advances
Tick ==
    /\ now < MaxTime
    /\ now' = now + 1
    /\ no_store_change /\ UNCHANGED <<users, result, faults>>

NextAuth ==
    CrudAuthenticate \/ CreateUser \/ AlmaAuthenticate \/ StreamlitAuthenticate \/ Tick

\* the three authenticate_user variants over one users table
SpecAuth == Init /\ [][NextAuth]_vars

-----------------------------------------------------------------------------
(* Login attempts against the users table alone *)

\* a known user name and one the table does not hold
AttemptUsernames == { "admin", "jessica", "nobody" }

\* admin's password, another user's password, nobody's password
AttemptPasswords == { "admin123", "jessica123", "wrong" }

\* alma/alma.py authenticate_user() over crud.authenticate_user; an error of
\* the store call is caught and answered with None
AuthenticateAttempt ==
    \E u \in AttemptUsernames, p \in AttemptPasswords, f \in { "none", "commit" } :
        /\ crud_authenticate_user(u, p, f)
        /\ inject(f)
        /\ no_store_change /\ UNCHANGED now

NextLogin == AuthenticateAttempt \/ Tick

SpecLogin == Init /\ [][NextLogin]_vars

-----------------------------------------------------------------------------
(* crud.py: analytics *)

\* func.sum(column) over the rows ids of a table
RECURSIVE func_sum(_, _, _)
func_sum(table, ids, column) ==
    IF ids = {} THEN 0
    ELSE LET i == CHOOSE j \in ids : TRUE
         IN  table[i][column] + func_sum(table, ids \ {i}, column)

\* DatabaseOperations.get_operations_analytics(days), read at clock time t;
\* the two quotients are held as <<numerator, denominator>>
get_operations_analytics(ops, days, t) ==
    LET cutoff_date == t - days
        in_period == { o \in DOMAIN ops : ops[o].created_at >= cutoff_date }
        total_ops == Cardinality(in_period)
        total_volume == func_sum(ops, in_period, "amount_usd")
        completed == { o \in in_period : ops[o].status = COMPLETED }
        completed_ops == Cardinality(completed)
        active_ops ==
            Cardinality({ o \in DOMAIN ops :
                            ops[o].status \in { PENDING, ASSIGNED, COLLECTING, COLLECTED,
                                                VALIDATED, FX_PROCESSING } })
        total_commission == func_sum(ops, completed, "commission_amount")
    IN  [ total_operations |-> total_ops,
          total_volume |-> total_volume,
          completed_operations |-> completed_ops,
          active_operations |-> active_ops,
          total_commission |-> total_commission,
          completion_rate |-> IF total_ops > 0 THEN <<completed_ops * 100, total_ops>>
                              ELSE <<0, 1>>,
          average_operation_size |-> IF total_ops > 0 THEN <<total_volume, total_ops>>
                                     ELSE <<0, 1>> ]

\* window lengths asked for, in clock ticks
WindowDays == { 0, 1 }

GetOperationsAnalytics ==
    \E days \in WindowDays :
        /\ result' = [ call |-> "get_operations_analytics", id |-> 0,
                       outcome |-> "ok", days |-> days, at |-> now,
                       analytics |-> get_operations_analytics(operations, days, now) ]
        /\ UNCHANGED <<operations, logs, clients, operations_data, cache_data,
                       users, now, faults, session, inflight>>

NextAnalytics ==
    CreateOperation \/ UpdateOperationStatus \/ Tick \/ GetOperationsAnalytics

\* the store with a running clock and the analytics query
SpecAnalytics == Init /\ [][NextAnalytics]_vars

-----------------------------------------------------------------------------
(* The store under one caller that meets no storage failure, with a running *)
(* clock: creates, status updates and the analytics query                    *)

\* new_status arguments of the failure-free caller
MoveInputs == { ASSIGNED, COMPLETED }

\* create_operation for a sample client, no storage failure
CreateForMaria ==
    \E a \in Amounts :
        /\ create_operation([ client_id |-> "maria", amount_usd |-> a ],
                            spaced_second(operations), "none")
        /\ UNCHANGED <<ui_vars, faults>>

\* update_operation_status, no storage failure
MoveOperation ==
    \E o \in OpIds, s \in MoveInputs :
        /\ update_operation_status(o, s, "none")
        /\ UNCHANGED <<ui_vars, faults>>

NextClock == CreateForMaria \/ MoveOperation \/ Tick \/ GetOperationsAnalytics

SpecClock == Init /\ [][NextClock]_vars

-----------------------------------------------------------------------------
(* Operation codes: creates whose clock readings share their last three     *)
(* digits                                                                    *)

\* clock readings of the creates, in seconds: one second, the next one, and
\* the second 1000 seconds after the first, all on one day
Timestamps == { 100, 101, 1100 }

\* create_operation at a given second
CreateOperationAt ==
    \E a \in Amounts, today \in Timestamps :
        /\ create_operation([ client_id |-> "maria", amount_usd |-> a ], today, "none")
        /\ UNCHANGED <<ui_vars, faults>>

\* the new-operation form submitted at a given second
NewOperationFormAt ==
    \E n \in ClientNames, a \in FormAmounts, w \in Wallets,
       p \in PickupAddresses, c \in Collectors, today \in Timestamps :
        /\ new_operation_form(n, a, w, p, c, today)
        /\ UNCHANGED <<operations, logs, clients, cache_data, users, now, faults,
                       session, inflight>>

NextCodes == CreateOperationAt \/ NewOperationFormAt

SpecCodes == Init /\ [][NextCodes]_vars

-----------------------------------------------------------------------------
(* The initial state of an operation: creates whose input names a status,   *)
(* a collector and a priority                                                *)

\* operation_data dictionaries handed to create_operation: the required keys
\* alone, and with a status, a collector and a priority supplied
SuppliedOperationData ==
    { [ client_id |-> "maria", amount_usd |-> USD(6000) ],
      [ client_id |-> "maria", amount_usd |-> USD(6000), status |-> COMPLETED,
        collector_id |-> "carlos", priority |-> "Urgent" ],
      [ client_id |-> "maria", amount_usd |-> USD(50), status |-> ASSIGNED,
        collector_id |-> "jessica" ] }

CreateSupplied ==
    \E operation_data \in SuppliedOperationData :
        /\ create_operation(operation_data, spaced_second(operations), "none")
        /\ UNCHANGED <<ui_vars, faults>>

\* the new-operation form filled in completely, with an amount inside or
\* above the limits and a collector chosen
SubmitWithCollector ==
    \E a \in { USD(6000), USD(FORM_MAX_VALUE) }, c \in Collectors :
        /\ new_operation_form(<<"A", "n", "n">>, a, Padded(<<"T">>, "1", 33),
                              <<"1", " ", "M", "a", "i", "n">>, c,
                              spaced_second(operations_data))
        /\ UNCHANGED <<operations, logs, clients, cache_data, users, now, faults,
                       session, inflight>>

NextInitial == CreateSupplied \/ SubmitWithCollector \/ MoveOperation

SpecInitial == Init /\ [][NextInitial]_vars

-----------------------------------------------------------------------------
(* Listings: crud.py get_all_operations and the operation-management page *)

\* the orders in which the rows ids of a table can come back from
\* order_by(desc(created_at)); rows of equal created_at come in any order
desc_created_at(table) ==
    { listing \in [ 1 .. Len(table) -> DOMAIN table ] :
        /\ \A i, j \in DOMAIN listing : i # j => listing[i] # listing[j]
        /\ \A i, j \in DOMAIN listing :
              i < j => table[listing[i]].created_at >= table[listing[j]].created_at }

\* DatabaseOperations.get_all_operations()
GetAllOperations ==
    \E listing \in desc_created_at(operations) :
        /\ result' = [ call |-> "get_all_operations", id |-> 0, outcome |-> "ok",
                       listing |-> [ i \in DOMAIN listing |-> operations[listing[i]] ] ]
        /\ UNCHANGED <<operations, logs, clients, operations_data, cache_data,
                       users, now, faults, session, inflight>>

\* rows of get_sample_operations_data() (operation_management.py), which
\* draws 20 rows at random; SampleSize rows are drawn here
SampleSize == 1

SampleOperationRows ==
    { [ operation_id |-> [ date |-> 0, suffix |-> 500 ],
        client_name |-> <<"J", "o", "h", "n">>, amount_usd |-> a, status |-> st,
        collector |-> "Jessica", created_at |-> now - h ] :
        a \in { USD(1000), USD(35000) }, st \in { PENDING, COMPLETED }, h \in { 1, 2 } }

get_sample_operations_data == [ 1 .. SampleSize -> SampleOperationRows ]

\* active_operations_view(): fill the session's operations_data with sample
\* rows when it has none, then list its rows in their stored order (every
\* row passes the default filters)
ActiveOperationsView ==
    /\ \E sample \in get_sample_operations_data :
          operations_data' = IF operations_data = <<>> THEN sample
                             ELSE operations_data
    /\ result' = [ call |-> "active_operations_view", id |-> 0,
                   outcome |-> "rendered", listing |-> operations_data' ]
    /\ UNCHANGED <<operations, logs, clients, cache_data, users, now, faults,
                   session, inflight>>

NextListing ==
    CreateOperation \/ Tick \/ GetAllOperations \/ NewOperationForm
      \/ ActiveOperationsView

\* the two listings the pages show, under creates and a running clock
SpecListing == Init /\ [][NextListing]_vars

-----------------------------------------------------------------------------
(* src/alma.py: the session of one browser tab: login, the five-minute data *)
(* cache and the pages that read through it.  DATABASE_AVAILABLE is False in *)
(* this file, so load_data() answers from get_sample_data().  The clock of   *)
(* this section counts minutes.                                              *)

MaxMinutes == 6

\* timedelta(minutes=5) of load_data_with_cache
CACHE_MINUTES == 5

\* what is typed into the login form
LoginUsernames == { "admin", "nobody", "" }
LoginPasswords == { "admin123", "jessica123", "wrong", "" }

\* rows of get_sample_data(), which draws 20 rows at random; SampleSize rows
\* are drawn here.  commission_amount is amount * 0.05.
AlmaSampleRows ==
    { [ amount_usd |-> a, status |-> st, commission_amount |-> a \div 20 ] :
        a \in { USD(5000), USD(35000) }, st \in { PENDING, COMPLETED } }

get_sample_data == [ 1 .. SampleSize -> AlmaSampleRows ]

\* df[column].sum()
RECURSIVE df_sum(_, _, _)
df_sum(df, n, column) ==
    IF n = 0 THEN 0 ELSE df[n][column] + df_sum(df, n - 1, column)

\* calculate_analytics_from_df(df); the two quotients are held as
\* <<numerator, denominator>>
calculate_analytics_from_df(df) ==
    LET total_ops == Len(df)
        total_volume == df_sum(df, Len(df), "amount_usd")
        completed_ops == Cardinality({ i \in DOMAIN df : df[i].status = COMPLETED })
        active_ops ==
            Cardinality({ i \in DOMAIN df :
                            df[i].status \in { PENDING, ASSIGNED, COLLECTING, COLLECTED,
                                               VALIDATED, FX_PROCESSING } })
        total_commission == df_sum(df, Len(df), "commission_amount")
    IN  [ total_operations |-> total_ops,
          total_volume |-> total_volume,
          completed_operations |-> completed_ops,
          active_operations |-> active_ops,
          total_commission |-> total_commission,
          completion_rate |-> IF total_ops > 0 THEN <<completed_ops * 100, total_ops>>
                              ELSE <<0, 1>>,
          average_operation_size |-> IF total_ops > 0 THEN <<total_volume, total_ops>>
                                     ELSE <<0, 1>> ]

\* load_data(): the (operations_df, analytics) pairs it can return
load_data ==
    { [ operations_df |-> df, analytics |-> calculate_analytics_from_df(df) ] :
        df \in get_sample_data }

\* a mutation of the cache test that still answers from an entry that is
\* exactly five minutes old
cache_is_fresh_inclusive(sess, t) ==
    /\ sess.operations_cache # <<>>
    /\ sess.cache_time # <<>>
    /\ t - sess.cache_time[1] <= CACHE_MINUTES

\* load_data_with_cache(): the test that lets the cached pair answer
cache_is_fresh(sess, t) ==
    /\ sess.operations_cache # <<>>
    /\ sess.cache_time # <<>>
    /\ t - sess.cache_time[1] < CACHE_MINUTES

\* clear_cache()
clear_cache(sess) == [ sess EXCEPT !.operations_cache = <<>>, !.cache_time = <<>> ]

session_frame ==
    UNCHANGED <<operations, logs, clients, operations_data, cache_data, users, faults,
                inflight>>

\* a page of main_app() calls load_data_with_cache()
LoadDataWithCache ==
    /\ session.authenticated
    /\ IF cache_is_fresh(session, now)
       THEN /\ result' = [ call |-> "load_data_with_cache", id |-> 0,
                           outcome |-> "cached", at |-> now,
                           value |-> session.operations_cache[1] ]
            /\ UNCHANGED session
       ELSE \E fresh \in load_data :
               /\ session' = [ session EXCEPT !.operations_cache = <<fresh>>,
                                              !.cache_time = <<now>> ]
               /\ result' = [ call |-> "load_data_with_cache", id |-> 0,
                              outcome |-> "loaded", at |-> now, value |-> fresh ]
    /\ UNCHANGED now
    /\ session_frame

\* admin_dashboard(): "Refresh Data" clicked
RefreshClicked ==
    /\ session.authenticated
    /\ session' = clear_cache(session)
    /\ result' = [ call |-> "clear_cache", id |-> 0, outcome |-> "rerun" ]
    /\ UNCHANGED now
    /\ session_frame

\* src/alma.py login_page(), the run in which "Login" is submitted
alma_login_page(username, password) ==
    LET called == username # "" /\ password # ""
        user == IF called THEN alma_authenticate_user(username, password) ELSE "None"
    IN  /\ ~session.authenticated
        /\ session' = IF user # "None"
                      THEN [ session EXCEPT !.authenticated = TRUE,
                                            !.user_name = <<user>> ]
                      ELSE session
        /\ result' = [ call |-> "alma.login_page", id |-> 0,
                       username |-> username, password |-> password,
                       user |-> user,
                       outcome |-> IF ~called THEN "Please enter username and password"
                                   ELSE IF user = "None" THEN "Invalid credentials"
                                   ELSE "rerun" ]

AlmaLoginPage ==
    \E u \in LoginUsernames, p \in LoginPasswords :
        /\ alma_login_page(u, p)
        /\ UNCHANGED now
        /\ session_frame

\* main_app(): "Logout" clicked: the login keys are deleted, the cache is
\* cleared and the next run initialises the session again
Logout ==
    /\ session.authenticated
    /\ session' = NoSession
    /\ result' = [ call |-> "logout", id |-> 0, outcome |-> "rerun" ]
    /\ UNCHANGED now
    /\ session_frame

\* a minute passes
WaitMinute ==
    /\ now < MaxMinutes
    /\ now' = now + 1
    /\ UNCHANGED <<result, session>>
    /\ session_frame

NextSession ==
    AlmaLoginPage \/ LoadDataWithCache \/ RefreshClicked \/ Logout \/ WaitMinute

SpecSession == Init /\ [][NextSession]_vars

-----------------------------------------------------------------------------
(* The login pages of the three front ends, each in front of its own        *)
(* authenticate_user                                                         *)

\* src/streamlit_app.py login_page(), the run in which "Login" is submitted
streamlit_login_page(username, password) ==
    LET called == username # "" /\ password # ""
        user == IF called THEN streamlit_authenticate_user(username, password)
                ELSE "None"
    IN  /\ ~session.authenticated
        /\ session' = IF user # "None"
                      THEN [ session EXCEPT !.authenticated = TRUE,
                                            !.user_name = <<user>> ]
                      ELSE session
        /\ result' = [ call |-> "streamlit_app.login_page", id |-> 0,
                       username |-> username, password |-> password,
                       user |-> user,
                       outcome |-> IF ~called THEN "Please enter username and password"
                                   ELSE IF user = "None" THEN "Invalid credentials"
                                   ELSE "rerun" ]

StreamlitLoginPage ==
    \E u \in LoginUsernames, p \in LoginPasswords :
        /\ streamlit_login_page(u, p)
        /\ UNCHANGED now
        /\ session_frame

\* what the second st.form_submit_button("Login") of the same form does in
\* the run of a click: the Streamlit build refuses the duplicate widget, or
\* it hands the second button the click of the first, or no click
SecondButton == { "DuplicateWidgetID", "True", "False" }

\* the user authenticate_user of alma/alma.py handed back: the store's
\* answer, with None for no match and for a caught exception
user_data_of(r) ==
    IF r.call = "crud.authenticate_user"
    THEN IF r.outcome \in { "None", "PersistenceError" } THEN "None" ELSE r.outcome
    ELSE r.user

\* alma/alma.py login_page(), the run in which "Login" is submitted: the
\* first submit block asks authenticate_user; a run that did not end in
\* st.rerun() goes on to the second submit block, which sets the flag and
\* then reads user_data["role"]
alma_alma_login_page(username, password, fail, second_button) ==
    LET called == username # "" /\ password # ""
    IN  /\ ~session.authenticated
        /\ IF called
           THEN crud_authenticate_user(username, password, fail)
           ELSE /\ fail = "none"
                /\ UNCHANGED users
                /\ result' = [ call |-> "alma.alma.login_page", id |-> 0,
                               username |-> username, password |-> password,
                               user |-> "None",
                               outcome |-> "Please enter username and password" ]
        /\ session' =
              IF user_data_of(result') # "None"
              THEN [ session EXCEPT !.authenticated = TRUE,
                                    !.user_name = <<user_data_of(result')>> ]
              ELSE IF second_button = "True" /\ called
              THEN [ session EXCEPT !.authenticated = TRUE ]
              ELSE session

AlmaAlmaLoginPage ==
    \E u \in LoginUsernames, p \in LoginPasswords, f \in { "none", "commit" },
       b \in SecondButton :
        /\ alma_alma_login_page(u, p, f, b)
        /\ inject(f)
        /\ UNCHANGED <<operations, logs, clients, operations_data, cache_data, now,
                       inflight>>

NextLoginPages ==
    AlmaAlmaLoginPage \/ AlmaLoginPage \/ StreamlitLoginPage \/ Logout

SpecLoginPages == Init /\ [][NextLoginPages]_vars

-----------------------------------------------------------------------------
(* Concurrent callers of the store.  Every store method runs in its own      *)
(* session on the engine's default isolation level (PostgreSQL: read          *)
(* committed) and takes no row lock: between the await of a read and the      *)
(* await of the commit another caller's commit can land.  inflight[w] is      *)
(* what worker w has read so far in the call it is inside.                    *)

race_frame == UNCHANGED <<operations_data, cache_data, users, now, faults, session>>

\* delete_operation up to its guard: session.get and the status check
CancelRead(w, operation_id) ==
    /\ inflight[w] = Idle
    /\ LET found == session_get(operations, operation_id)
       IN  IF found = <<>>
           THEN /\ result' = [ call |-> "delete_operation", id |-> operation_id,
                               outcome |-> "False" ]
                /\ UNCHANGED inflight
           ELSE IF ~cancellable(found[1].status)
           THEN /\ result' = [ call |-> "delete_operation", id |-> operation_id,
                               outcome |-> "StateConflict" ]
                /\ UNCHANGED inflight
           ELSE /\ inflight' = [ inflight EXCEPT ![w] =
                                   [ call |-> "delete_operation", id |-> operation_id,
                                     status |-> found[1].status ] ]
                /\ UNCHANGED result
    /\ UNCHANGED store_vars

\* delete_operation from the assignment on: the flush writes
\* UPDATE operations SET status = 'Cancelled' WHERE id = :id, then the log
CancelCommit(w) ==
    /\ inflight[w].call = "delete_operation"
    /\ Len(logs) < MaxLogs
    /\ operations' = [ operations EXCEPT ![inflight[w].id].status = CANCELLED ]
    /\ logs' = log_operation_action(logs, inflight[w].id, "Operation Cancelled", <<>>)
    /\ result' = [ call |-> "delete_operation", id |-> inflight[w].id,
                   outcome |-> "True" ]
    /\ inflight' = [ inflight EXCEPT ![w] = Idle ]
    /\ UNCHANGED clients

CancelReads ==
    \E w \in Workers, o \in OpIds : CancelRead(w, o) /\ race_frame

CancelCommits ==
    \E w \in Workers : CancelCommit(w) /\ race_frame

NextCancelRace == CreateForMaria \/ MoveOperation \/ CancelReads \/ CancelCommits

SpecCancelRace == Init /\ [][NextCancelRace]_vars

\* create_operation up to its call of update_client_stats: the row and
\* the log entry are committed, the client's totals are not yet touched
CreateBegin(w, client_id, amount) ==
    /\ inflight[w] = Idle
    /\ Len(operations) < MaxOps
    /\ Len(logs) < MaxLogs
    /\ \E written \in create_operation_writes(
                          [ client_id |-> client_id, amount_usd |-> amount ],
                          spaced_second(operations), "none") :
          /\ operations' = written.operations
          /\ logs' = written.logs
          /\ inflight' = [ inflight EXCEPT ![w] =
                             [ call |-> "update_client_stats", pc |-> "get",
                               id |-> written.id,
                               client_id |-> client_id, amount |-> amount ] ]
    /\ UNCHANGED <<clients, result>>

\* update_client_stats: session.get(Client, client_id)
StatsRead(w) ==
    /\ inflight[w].call = "update_client_stats"
    /\ inflight[w].pc = "get"
    /\ inflight' = [ inflight EXCEPT ![w] =
                       [ call |-> "update_client_stats", pc |-> "add",
                         id |-> inflight[w].id,
                         client_id |-> inflight[w].client_id,
                         amount |-> inflight[w].amount,
                         client |-> clients[inflight[w].client_id] ] ]
    /\ UNCHANGED <<store_vars, result>>

\* update_client_stats from the additions on: total_volume += amount raises
\* TypeError and create_operation ends in it; were the two addable, the
\* commit would write the totals computed from the row that was read
StatsAdd(w) ==
    /\ inflight[w].call = "update_client_stats"
    /\ inflight[w].pc = "add"
    /\ LET client_id == inflight[w].client_id
           read == [ c \in { client_id } |-> inflight[w].client ]
           raised == iadd_raises_TypeError(TotalVolumeType, OperationAmountType)
       IN  /\ clients' =
                 IF raised THEN clients
                 ELSE [ clients EXCEPT ![client_id] =
                          update_client_stats(read, client_id,
                                              inflight[w].amount)[client_id] ]
           /\ result' = [ call |-> "create_operation", id |-> inflight[w].id,
                          outcome |-> IF raised THEN "TypeError" ELSE "ok" ]
    /\ inflight' = [ inflight EXCEPT ![w] = Idle ]
    /\ UNCHANGED <<operations, logs>>

\* the clients whose operations the concurrent callers create
RaceClients == { "maria", "sarah" }

CreateBegins ==
    \E w \in Workers, c \in RaceClients, a \in Amounts :
        CreateBegin(w, c, a) /\ race_frame

StatsReads ==
    \E w \in Workers : StatsRead(w) /\ race_frame

StatsAdds ==
    \E w \in Workers : StatsAdd(w) /\ race_frame

NextStatsRace == CreateBegins \/ StatsReads \/ StatsAdds

SpecStatsRace == Init /\ [][NextStatsRace]_vars

\* the five scalar queries of get_operations_analytics, in their order
AnalyticsQueries ==
    << "total_operations", "total_volume", "completed_operations",
       "active_operations", "total_commission" >>

\* get_operations_analytics(days) up to its first query: cutoff_date is
\* computed from the clock
AnalyticsBegin(w, days) ==
    /\ inflight[w] = Idle
    /\ inflight' = [ inflight EXCEPT ![w] =
                       [ call |-> "get_operations_analytics", pc |-> 1,
                         days |-> days, at |-> now, figures |-> <<>> ] ]
    /\ UNCHANGED <<store_vars, result>>

\* the next session.scalar(...) of the call: under read committed the
\* statement sees what is committed when it runs; after the fifth the
\* dictionary is built from the five figures and returned
AnalyticsQuery(w) ==
    /\ inflight[w].call = "get_operations_analytics"
    /\ LET call == inflight[w]
           seen == get_operations_analytics(operations, call.days, call.at)
           figures == Append(call.figures, seen[AnalyticsQueries[call.pc]])
       IN  IF call.pc < Len(AnalyticsQueries)
           THEN /\ inflight' = [ inflight EXCEPT ![w].pc = call.pc + 1,
                                                 ![w].figures = figures ]
                /\ UNCHANGED result
           ELSE /\ inflight' = [ inflight EXCEPT ![w] = Idle ]
                /\ result' =
                      [ call |-> "get_operations_analytics", id |-> 0,
                        outcome |-> "ok", days |-> call.days, at |-> call.at,
                        analytics |->
                          [ total_operations |-> figures[1],
                            total_volume |-> figures[2],
                            completed_operations |-> figures[3],
                            active_operations |-> figures[4],
                            total_commission |-> figures[5],
                            completion_rate |->
                                IF figures[1] > 0 THEN <<figures[3] * 100, figures[1]>>
                                ELSE <<0, 1>>,
                            average_operation_size |->
                                IF figures[1] > 0 THEN <<figures[2], figures[1]>>
                                ELSE <<0, 1>> ] ]
    /\ UNCHANGED store_vars

AnalyticsBegins ==
    \E w \in Workers, days \in WindowDays : AnalyticsBegin(w, days) /\ race_frame

AnalyticsQueriesRun ==
    \E w \in Workers : AnalyticsQuery(w) /\ race_frame

NextAnalyticsRace ==
    CreateForMaria \/ MoveOperation \/ AnalyticsBegins \/ AnalyticsQueriesRun

SpecAnalyticsRace == Init /\ [][NextAnalyticsRace]_vars

-----------------------------------------------------------------------------
(* Vocabulary of the properties *)

\* the rows of a table that satisfy nothing but membership: its indices
Rows(table) == DOMAIN table

\* log entries of one operation with one action label
LogEntries(lg, operation_id, action) ==
    { i \in DOMAIN lg : lg[i].operation_id = operation_id /\ lg[i].action = action }

\* operations recorded for a client, and the sum of their amounts
OperationsOf(ops, client_id) == { i \in DOMAIN ops : ops[i].client_id = client_id }

RECURSIVE SumAmounts(_, _)
SumAmounts(ops, ids) ==
    IF ids = {} THEN 0
    ELSE LET i == CHOOSE j \in ids : TRUE
         IN  ops[i].amount_usd + SumAmounts(ops, ids \ {i})

\* position of a status on the pipeline Pending -> ... -> Completed
PipelineRank(status) ==
    CASE status = PENDING -> 1
      [] status = ASSIGNED -> 2
      [] status = COLLECTING -> 3
      [] status = COLLECTED -> 4
      [] status = VALIDATED -> 5
      [] status = DELIVERED_TO_FX -> 6
      [] status = FX_PROCESSING -> 7
      [] status = COMPLETED -> 8
      [] OTHER -> 0

TerminalStatuses == { COMPLETED, CANCELLED, ERROR }

lg_is_prefix(old, new) ==
    /\ Len(new) >= Len(old)
    /\ \A i \in DOMAIN old : new[i] = old[i]

-----------------------------------------------------------------------------
(* Properties of the store *)

\* C1: create_operation is atomic as a unit.  In every reachable state an
\* operation row exists if and only if its "Operation Created" log entry
\* exists, and every client's total_operations / total_volume count exactly
\* the operations (and amounts) recorded for it; a failed create_operation
\* leaves none of the three behind.
C1_CreateIsAtomic ==
    /\ \A o \in DOMAIN operations :
          Cardinality(LogEntries(logs, o, "Operation Created")) = 1
    /\ \A i \in DOMAIN logs :
          logs[i].action = "Operation Created" => logs[i].operation_id \in DOMAIN operations
    /\ \A c \in DOMAIN clients :
          /\ clients[c].total_operations =
                SampleClients[c].total_operations
                  + Cardinality(OperationsOf(operations, c))
          /\ clients[c].total_volume =
                SampleClients[c].total_volume
                  + SumAmounts(operations, OperationsOf(operations, c))

\* C2: a status change and its audit-log entry are committed together.  No
\* step changes an operation's persisted status without appending one log
\* entry for that operation, and every successful update_operation_status /
\* delete_operation appends exactly one log entry.
C2_StatusChangeIsLogged ==
    [][ /\ \A o \in DOMAIN operations :
              operations'[o].status # operations[o].status =>
                  /\ Len(logs') = Len(logs) + 1
                  /\ logs'[Len(logs')].operation_id = o
                  /\ logs'[Len(logs')].action \in { "Status Updated", "Operation Cancelled" }
        /\ ( /\ result'.call \in { "update_operation_status", "delete_operation" }
             /\ result'.outcome \in { "ok", "True" } )
              => Len(logs') = Len(logs) + 1
      ]_vars

\* C3: delete_operation on an existing operation whose status is neither
\* Pending nor Assigned fails with a state conflict, changes no status and
\* appends no log entry; on a Pending or Assigned operation it never reports
\* a conflict or a miss, and when it returns True the status is Cancelled
\* and one "Operation Cancelled" entry was appended.
C3_CancelGuard ==
    [][ \A o \in DOMAIN operations :
            ( result'.call = "delete_operation" /\ result'.id = o ) =>
                IF operations[o].status \notin { PENDING, ASSIGNED }
                THEN /\ result'.outcome = "StateConflict"
                     /\ operations' = operations
                     /\ logs' = logs
                ELSE /\ result'.outcome \in { "True", "PersistenceError" }
                     /\ result'.outcome = "True" =>
                           /\ operations'[o].status = CANCELLED
                           /\ \A p \in DOMAIN operations \ {o} :
                                 operations'[p] = operations[p]
                           /\ logs' = Append(logs, logs'[Len(logs')])
                           /\ logs'[Len(logs')].operation_id = o
                           /\ logs'[Len(logs')].action = "Operation Cancelled"
      ]_vars

\* C3 witness: a cancel was refused on an operation that is in progress
C3_Witness ==
    /\ result.call = "delete_operation"
    /\ result.outcome = "StateConflict"
    /\ result.id \in DOMAIN operations
    /\ operations[result.id].status = COLLECTING

\* C4: for an operation id that does not exist, update_operation_status
\* fails with not-found and delete_operation returns False; neither changes
\* or creates an operation, client or log record.
C4_MissingOperation ==
    [][ \A o \in OpIds \ DOMAIN operations :
            /\ ( result'.call = "update_operation_status" /\ result'.id = o ) =>
                   /\ result'.outcome = "NotFound"
                   /\ UNCHANGED store_vars
            /\ ( result'.call = "delete_operation" /\ result'.id = o ) =>
                   /\ result'.outcome = "False"
                   /\ UNCHANGED store_vars
      ]_vars

\* C4 witness: a call on a missing id was answered while other rows exist
C4_Witness ==
    /\ result.call \in { "update_operation_status", "delete_operation" }
    /\ result.outcome \in { "NotFound", "False" }
    /\ result.id \notin DOMAIN operations
    /\ operations # <<>>

\* C5: every status change the store applies is a forward move along the
\* pipeline, the side transition Pending|Assigned -> Cancelled, or a
\* transition into Error; no status moves backward.
C5_TransitionsFollowPipeline ==
    [][ \A o \in DOMAIN operations :
            LET old == operations[o].status
                new == operations'[o].status
            IN  new # old =>
                  \/ /\ PipelineRank(old) > 0
                     /\ PipelineRank(new) > PipelineRank(old)
                  \/ old \in { PENDING, ASSIGNED } /\ new = CANCELLED
                  \/ new = ERROR
      ]_vars

\* C6: Completed, Cancelled and Error are terminal: once an operation has
\* one of them, no later store operation changes its status.
C6_TerminalStatusesStay ==
    [][ \A o \in DOMAIN operations :
            operations[o].status \in TerminalStatuses =>
                operations'[o].status = operations[o].status
      ]_vars

\* C9: the audit log is append-only: every step leaves each existing
\* OperationLog entry in place and unchanged; the log only grows.
C9_LogAppendOnly ==
    [][ lg_is_prefix(logs, logs') ]_vars

\* C9 witness: the log holds entries of a create, a status update and a cancel
C9_Witness ==
    /\ Len(logs) >= 3
    /\ \E i, j, k \in DOMAIN logs :
          /\ i < j /\ j < k
          /\ logs[i].action = "Operation Created"
          /\ logs[j].action = "Status Updated"
          /\ logs[k].action = "Operation Cancelled"

-----------------------------------------------------------------------------
(* Properties of the front ends *)

\* C7: the operation-listing cache is invalidated by every write: whenever
\* the memo of load_sample_data is set, it holds the listing of the current
\* persisted operations, so no load returns a listing cached before a write
\* that changed persisted state (a cancel whose status change committed but
\* whose log append raised included).
C7_CacheNeverStale ==
    cache_data.valid => cache_data.value = load_operations_data(operations)

\* the credentials the login pages print for the demo users
DemoCredentials ==
    [ u \in alma_demo_users |->
        CASE u = "admin" -> "admin123"
          [] u = "fx_provider" -> "fx123"
          [] u = "jessica" -> "jessica123"
          [] OTHER -> "carlos123" ]

\* C8: authenticate returns a user only if that user is active, is the user
\* named by the given username, and the given credential is that same
\* user's own stored credential; another user's credential never
\* authenticates the named user.
C8_AuthenticateOwnCredential ==
    ( /\ result.call \in { "crud.authenticate_user", "alma.authenticate_user",
                           "streamlit_app.authenticate_user" }
      /\ result.outcome \notin { "None", "PersistenceError" } )
    => /\ result.outcome = result.username
       /\ IF result.call = "crud.authenticate_user"
          THEN /\ users[result.username].is_active
               /\ users[result.username].password_hash = result.password
          ELSE DemoCredentials[result.username] = result.password

\* C10: every persisted operation has a gross amount within [100, 100000]:
\* no row of the operations table and no row of the in-session operation
\* set comes from an input the validator rejects.
C10_PersistedInputsValid ==
    /\ \A o \in DOMAIN operations :
          /\ operations[o].amount_usd >= USD(MIN_OPERATION_AMOUNT)
          /\ operations[o].amount_usd <= USD(FORM_MAX_VALUE)
    /\ \A i \in DOMAIN operations_data :
          /\ operations_data[i].amount_usd >= USD(MIN_OPERATION_AMOUNT)
          /\ operations_data[i].amount_usd <= USD(FORM_MAX_VALUE)
          /\ truthy(operations_data[i].client_name)

-----------------------------------------------------------------------------
(* Properties of the clients table *)

\* C11: recording an operation of amount a for a client adds exactly 1 to
\* the client's total_operations and exactly a to its total_volume; the
\* client is frequent afterwards if the new count is at least 5 and the new
\* volume at least 25000, and keeps its tier otherwise; no other client row
\* changes.  Stated for every create_operation that persisted its row and
\* met no storage failure.
C11_StatsUpdate ==
    [][ ( /\ result'.call = "create_operation"
          /\ result'.outcome \notin { "PersistenceError", "KeyError" }
          /\ Len(operations') = Len(operations) + 1 )
        => LET row == operations'[Len(operations')]
               c == row.client_id
               n == clients[c].total_operations + 1
               v == clients[c].total_volume + row.amount_usd
           IN  /\ clients'[c].total_operations = n
               /\ clients'[c].total_volume = v
               /\ clients'[c].client_type =
                     IF n >= 5 /\ v >= USD(25000) THEN FREQUENT ELSE clients[c].client_type
               /\ \A d \in DOMAIN clients \ {c} : clients'[d] = clients[d]
      ]_vars

\* C12: a client's tier is derived: in every reachable state a client is
\* frequent only if its total_operations is at least 5 and its total_volume
\* at least 25000.
C12_TierIsDerived ==
    \A c \in DOMAIN clients :
        clients[c].client_type = FREQUENT =>
            /\ clients[c].total_operations >= 5
            /\ clients[c].total_volume >= USD(25000)

-----------------------------------------------------------------------------
(* Properties of the commission calculator *)

\* C13: for every amount above 0, calculate_commission uses for a regular
\* client the rate 0.07 below 5000, 0.06 from 5000 to 20000 (both included)
\* and 0.05 above 20000, and for a frequent client exactly 0.01 less in
\* each bracket.
C13_CommissionBrackets ==
    ( result.call = "calculate_commission" /\ result.outcome = "ok" )
    => LET a == result.amount
           regular_rate == IF a < USD(5000) THEN 14
                           ELSE IF a <= USD(20000) THEN 12 ELSE 10
       IN  result.breakdown.commission_rate =
               IF result.client_type = REGULAR THEN regular_rate
               ELSE regular_rate - 2

\* C13 witness: the calculator answered for exactly 5000 at the regular tier
C13_Witness ==
    /\ result.call = "calculate_commission"
    /\ result.outcome = "ok"
    /\ result.amount = USD(5000)
    /\ result.client_type = REGULAR
    /\ result.breakdown.commission_rate = 12

\* C14: commission_amount + net_amount equals the gross amount exactly, in
\* the breakdown calculate_commission returns (where net_amount is the gross
\* amount less the commission only, fx_commission not being subtracted) and
\* in the two-decimal columns of every stored operation.
C14_BreakdownAddsUp ==
    /\ ( result.call = "calculate_commission" /\ result.outcome = "ok" )
       => /\ result.breakdown.commission_amount + result.breakdown.net_amount
                = result.breakdown.gross_amount
          /\ result.breakdown.net_amount
                = result.breakdown.gross_amount - result.breakdown.commission_amount
    /\ \A o \in DOMAIN operations :
          operations[o].commission_amount + operations[o].net_amount
              = operations[o].amount_usd

\* C15: calculate_commission has no error outcome: for a client type that is
\* neither regular nor frequent it returns the breakdown of the regular
\* tier, and create_operation with such a client type does not fail on it.
C15_UnknownTierIsRegular ==
    /\ result.call = "calculate_commission"
       => /\ result.outcome = "ok"
          /\ result.client_type \notin ClientType
                => result.breakdown = calculate_commission(result.amount, REGULAR)
    /\ result.call = "create_operation" => result.outcome # "KeyError"

-----------------------------------------------------------------------------
(* Properties of the validators *)

\* the messages of the two amount rules and of the wallet rule
AmountErrors == { "Amount must be at least $100", "Amount cannot exceed $50000" }

WalletErrors == { "USDT wallet address is required" }

\* the messages of a list
Messages(errors) == { errors[i] : i \in DOMAIN errors }

\* C16: the operation validator reports no amount error for any amount in
\* [100, 100000] and reports an amount error for every amount that is
\* missing, below 100 or above 100000.
C16_AmountRule ==
    result.call = "validate_operation_data"
    => LET amount == result.data.amount
           in_range == /\ amount # <<>>
                       /\ amount[1] >= USD(100)
                       /\ amount[1] <= USD(100000)
       IN  in_range <=> Messages(result.errors) \cap AmountErrors = {}

\* C17: the operation validator accepts a wallet address exactly when it is
\* 34 characters beginning with T or 42 characters beginning with 0x; for
\* every other address, a present but malformed one included, the error
\* list contains a wallet error.
C17_WalletRule ==
    result.call = "validate_operation_data"
    => LET w == result.data.usdt_wallet
           well_formed == \/ Len(w) = 34 /\ w[1] = "T"
                          \/ Len(w) = 42 /\ w[1] = "0" /\ w[2] = "x"
       IN  well_formed <=> Messages(result.errors) \cap WalletErrors = {}

-----------------------------------------------------------------------------
(* Properties of the analytics *)

ActiveStatuses ==
    { PENDING, ASSIGNED, COLLECTING, COLLECTED, VALIDATED, FX_PROCESSING }

\* C20: every figure of get_operations_analytics(days) aggregates only the
\* operations created within the trailing window: total, volume and
\* completed count the operations of the window, active_operations is the
\* number of operations of the window in an active status, and so
\* completed_operations + active_operations never exceeds total_operations.
C20_AnalyticsWithinWindow ==
    result.call = "get_operations_analytics"
    => LET a == result.analytics
           window == { o \in DOMAIN operations :
                         operations[o].created_at >= result.at - result.days }
       IN  /\ a.total_operations = Cardinality(window)
           /\ a.total_volume = SumAmounts(operations, window)
           /\ a.completed_operations =
                 Cardinality({ o \in window : operations[o].status = COMPLETED })
           /\ a.active_operations =
                 Cardinality({ o \in window : operations[o].status \in ActiveStatuses })
           /\ a.completed_operations + a.active_operations <= a.total_operations

-----------------------------------------------------------------------------
(* Properties of the listings *)

\* rows in descending creation order, the most recent first
NewestFirst(listing) ==
    \A i, j \in DOMAIN listing :
        i < j => listing[i].created_at >= listing[j].created_at

\* C19: listings are ordered by creation time, most recent first: the
\* unfiltered get_all_operations returns every operation in descending
\* creation order, and the listing a page shows has the operation that was
\* just created as its first entry.
C19_ListingsNewestFirst ==
    /\ result.call = "get_all_operations"
       => /\ Len(result.listing) = Len(operations)
          /\ NewestFirst(result.listing)
    /\ result.call = "active_operations_view"
       => NewestFirst(result.listing)

-----------------------------------------------------------------------------
(* C23: update_status sets completed_at when and only when the new status is *)
(* Completed: every Completed operation has completed_at set, a row changed  *)
(* into (or kept in) Completed carries the time of that update, and no other *)
(* step changes the completed_at of a row.                                   *)
C23_CompletedAtRule ==
    [][ /\ \A o \in DOMAIN operations' :
              operations'[o].status = COMPLETED => operations'[o].completed_at # <<>>
        /\ \A o \in DOMAIN operations :
              /\ (operations'[o] # operations[o] /\ operations'[o].status = COMPLETED)
                    => operations'[o].completed_at = <<now>>
              /\ operations'[o].completed_at # operations[o].completed_at
                    => /\ result'.call = "update_operation_status"
                       /\ result'.id = o
                       /\ operations'[o].status = COMPLETED ]_vars

\* a Completed operation was moved to another status at a later time and
\* still carries the time of its completion
C23_Witness ==
    /\ result.call = "update_operation_status"
    /\ result.outcome = "ok"
    /\ result.id \in DOMAIN operations
    /\ operations[result.id].status = ASSIGNED
    /\ operations[result.id].completed_at # <<>>
    /\ operations[result.id].completed_at[1] < now

-----------------------------------------------------------------------------
(* C22: no two operations held share an operation code, neither two rows of *)
(* the operations table nor two rows of the session's operation set.         *)
codes_differ(table) ==
    \A i, j \in DOMAIN table : i # j => table[i].operation_id # table[j].operation_id

C22_CodesAreUnique == codes_differ(operations) /\ codes_differ(operations_data)

-----------------------------------------------------------------------------
(* C24: the row a create adds, in the operations table or in the session's  *)
(* operation set, has status Pending whatever the input supplied.            *)
C24_CreatedPending ==
    [][ /\ Len(operations') = Len(operations) + 1
              => operations'[Len(operations')].status = PENDING
        /\ Len(operations_data') = Len(operations_data) + 1
              => operations_data'[Len(operations_data')].status = PENDING ]_vars

\* a create whose input supplied status Completed, a collector and priority
\* Urgent has just persisted its row, next to a form row with a chosen
\* collector
C24_Witness ==
    /\ result.call = "create_operation"
    /\ result.id \in DOMAIN operations
    /\ operations[result.id].priority = "Urgent"
    /\ operations[result.id].collector_id = "carlos"
    /\ operations[result.id].status = PENDING
    /\ \E i \in DOMAIN operations_data : operations_data[i].collector = "Carlos"

-----------------------------------------------------------------------------
(* C25: an authenticate call with an unknown user name and one with a known *)
(* user name and a credential that is not that user's both return None and   *)
(* both leave the users table, last_login included, as it was.               *)
credential_mismatch(username, password) ==
    username \notin DOMAIN users \/ users[username].password_hash # password

C25_FailureIsSilent ==
    [][ (result'.call = "crud.authenticate_user"
           /\ credential_mismatch(result'.username, result'.password))
          => (result'.outcome = "None" /\ users' = users) ]_vars

\* a known user, logged in before, has just been refused for a wrong password
C25_Witness ==
    /\ result.call = "crud.authenticate_user"
    /\ result.username = "admin"
    /\ result.password = "jessica123"
    /\ result.outcome = "None"
    /\ users["admin"].last_login # <<>>
    /\ users["admin"].last_login[1] < now

-----------------------------------------------------------------------------
(* C26: the analytics of the listing a session holds: both quotients are 0  *)
(* for an empty listing, otherwise completion_rate is completed / total x    *)
(* 100 and average_operation_size is the volume of all rows / total, and     *)
(* total_commission is the commission of the Completed rows only.            *)
C26_AnalyticsFigures ==
    session.operations_cache # <<>> =>
        LET df == session.operations_cache[1].operations_df
            analytics == session.operations_cache[1].analytics
            completed == { i \in DOMAIN df : df[i].status = COMPLETED }
        IN  /\ Len(df) = 0 => /\ analytics.completion_rate[1] = 0
                              /\ analytics.average_operation_size[1] = 0
            /\ Len(df) > 0 =>
                  /\ analytics.completion_rate = <<Cardinality(completed) * 100, Len(df)>>
                  /\ analytics.average_operation_size =
                         <<SumAmounts(df, DOMAIN df), Len(df)>>
            /\ analytics.total_commission = func_sum(df, completed, "commission_amount")

-----------------------------------------------------------------------------
(* C27: load_data_with_cache answers from the cache exactly when an entry   *)
(* and its time are set and the entry is less than five minutes old, and     *)
(* leaves the session alone then; otherwise it loads, stores what it loaded  *)
(* and sets the cache time to the current time.                              *)
C27_CacheRule ==
    [][ (result'.call = "load_data_with_cache" /\ now' = now) =>
          LET fresh == /\ session.operations_cache # <<>>
                       /\ session.cache_time # <<>>
                       /\ now - session.cache_time[1] < 5
          IN  /\ fresh => /\ result'.outcome = "cached"
                          /\ result'.value = session.operations_cache[1]
                          /\ session' = session
              /\ ~fresh => /\ result'.outcome = "loaded"
                           /\ result'.value \in load_data
                           /\ session'.operations_cache = <<result'.value>>
                           /\ session'.cache_time = <<now>> ]_vars

\* the cached pair has just answered at the age of four minutes, the oldest
\* age at which it may
C27_Witness ==
    /\ result.call = "load_data_with_cache"
    /\ result.outcome = "cached"
    /\ result.at = now
    /\ session.cache_time # <<>>
    /\ now - session.cache_time[1] = 4

-----------------------------------------------------------------------------
-----------------------------------------------------------------------------
(* C28: a status is overwritten with Cancelled only when the committed      *)
(* status at that write is Pending or Assigned.                              *)
C28_CancelOverwritesOnlyCancellable ==
    [][ \A o \in DOMAIN operations :
          (operations'[o].status = CANCELLED /\ operations[o].status # CANCELLED)
             => operations[o].status \in { PENDING, ASSIGNED } ]_vars

-----------------------------------------------------------------------------
-----------------------------------------------------------------------------
(* C21: the figures one get_operations_analytics call returns are those of  *)
(* one committed state of the operations table; in particular               *)
(* completed_operations never exceeds total_operations, and a result that    *)
(* counts no operation carries no volume and no commission.                  *)
C21_OneCommittedState ==
    result.call = "get_operations_analytics"
    => LET a == result.analytics
       IN  /\ a.completed_operations <= a.total_operations
           /\ a.total_operations = 0 => (a.total_volume = 0 /\ a.total_commission = 0)

=============================================================================
